---- MODULE Spec2Model ----
(***************************************************************************)
(* A model of book_loader: the Adobe authorization store and the ACSM      *)
(* workflow (core/adobe/account.py, core/adobe/fulfill.py,                 *)
(* core/workflow.py, cli.py), the DRM remover (core/drm/remover.py), the   *)
(* Kobo KEPUB trial decryption (core/kobo/decryptor.py), the Kobo library  *)
(* snapshot and the kobo commands (core/kobo/library.py, cli.py), and two  *)
(* processes sharing one authorization directory.                          *)
(*                                                                         *)
(* The Adobe protocol library (libadobe, libadobeAccount, libadobeFulfill) *)
(* is not part of the sources; its five registration steps are modelled    *)
(* from the specification (section 4.3).  AES (PyCryptodome) is modelled   *)
(* by its contract: block alignment, key lengths, and a plaintext that is  *)
(* the publisher's under the right key and arbitrary under a wrong one.    *)
(***************************************************************************)
EXTENDS Integers, Sequences, FiniteSets, TLC

VARIABLES
    \* ---- Adobe authorization directory and workflow ----
    files,        \* names of the files present in the authorization directory
    salt,         \* identity held by devicesalt (0: none)
    device,       \* identity device.xml was derived from (0: none)
    activation,   \* content of activation.xml: "none", "signedin", "activated"
    doc,          \* activation.xml as get_auth_type and get_device_key read it
    nGen,         \* number of device identities generated so far
    op,           \* the top-level call in progress ("idle": none)
    pc,           \* position inside the call
    method,       \* "anonymous" or "AdobeID": the sign-in method of the attempt
    steps,        \* registration steps invoked by the latest attempt, with outcomes
    startFiles,   \* files present when the latest attempt started
    authEnd,      \* the latest attempt: "none", "running", "returned", "AuthorizationError"
    result,       \* how the latest top-level call ended
    fulfillReqs,  \* number of fulfillment requests issued to the server
    reqLog,       \* outcomes of the fulfillment requests of the latest fulfill call
    acsmExists,   \* the .acsm file given to the call in progress exists
    to_pdf,       \* process_acsm's to_pdf argument
    keep_encrypted, \* process_acsm's keep_encrypted argument
    encFile,      \* the download in <output>/.temp: "absent", "partial", "present"
    suffix,       \* suffix of the downloaded file: ".epub" or ".pdf"
    decFile,      \* the decrypted file in <output>: "absent", "partial", "decrypted", "copy"
    pdfFile,      \* the converted PDF in <output>: "absent", "present"
    retPath,      \* the path process_acsm or fulfill returned ("none": nothing)
    \* ---- Kobo trial decryption ----
    book,         \* the KoboBook given to decrypt_book
    userkeys,     \* the candidate user keys given to decrypt_book
    outFile,      \* what the output path holds
    outFile0,     \* what the output path held before the call
    kpc,          \* position inside decrypt_book
    keyIdx,       \* index of the candidate key being tried
    entryIdx,     \* index of the archive member being processed
    rejected,     \* number of candidate keys rejected so far
    last,         \* the latest archive member processed, and how
    kresult,      \* how decrypt_book ended
    \* ---- calls on the key store ----
    answer,       \* the latest call on the key store, and what it returned
    \* ---- DRMRemover ----
    fs,           \* what each path holds
    drm,          \* the latest remove_drm call: arguments, outcome, files before
    \* ---- command line ----
    cmd,          \* the latest command: name, options, position, how it ended
    kobodb,       \* Kobo.sqlite in the Kobo directory: existence, bytes, rows
    snap,         \* the private snapshot of Kobo.sqlite: state and bytes
    conflict,     \* the latest conflict resolution of kobo dedrm's loop
    \* ---- two runs on one authorization directory ----
    cur,          \* the process whose call is in op, pc, method, steps, ...
    susp,         \* the call of the other process, suspended
    writer,       \* for each authorization file, the process that wrote it last
    runs          \* authorizations the two processes have begun

authVars == <<files, salt, device, activation, doc, nGen, op, pc, method, steps,
              startFiles, authEnd, result, fulfillReqs, reqLog, acsmExists, to_pdf,
              keep_encrypted, encFile, suffix, decFile, pdfFile, retPath>>
workVars == <<to_pdf, keep_encrypted, encFile, suffix, decFile, pdfFile, retPath>>
koboVars == <<book, userkeys, outFile, outFile0, kpc, keyIdx, entryIdx,
              rejected, last, kresult>>
storeVars == <<answer>>
drmVars == <<fs, drm>>
cliVars == <<cmd, kobodb, snap, conflict>>
concVars == <<cur, susp, writer, runs>>
vars == <<authVars, koboVars, storeVars, drmVars, cliVars, concVars>>
nonAuthVars == <<koboVars, storeVars, drmVars, cliVars, concVars>>
nonKoboVars == <<authVars, storeVars, drmVars, cliVars, concVars>>
nonStoreVars == <<authVars, koboVars, drmVars, cliVars, concVars>>
nonDrmVars == <<authVars, koboVars, storeVars, cliVars, concVars>>
nonCliVars == <<authVars, koboVars, storeVars, drmVars, concVars>>

(***************************************************************************)
(* Bounds                                                                  *)
(***************************************************************************)
MaxGen == 3       \* device identities generated in one behaviour
MaxReqs == 2      \* fulfillment requests issued in one behaviour

(***************************************************************************)
(* AdobeAccount: the authorization directory                               *)
(***************************************************************************)
AuthFiles == {"activation.xml", "activation.dat", "device.xml", "devicesalt"}

\* The is_authorized of an earlier revision: the standard files only.
is_authorized_standard_only ==
    /\ "activation.xml" \in files
    /\ "device.xml" \in files
    /\ "devicesalt" \in files

is_authorized ==
    LET standard_format == /\ "activation.xml" \in files
                           /\ "device.xml" \in files
                           /\ "devicesalt" \in files
        ade_format == "activation.dat" \in files
    IN  standard_format \/ ade_format

\* activation.xml as the two readers see it: whether lxml parses it, the
\* method attribute of <credentials> and of <username> ("absent": no such
\* element, "nomethod": the element without the attribute), and the text of
\* <privateLicenseKey>:
\*   "absent"      no such element
\*   "empty"       the element without text
\*   "blank"       white space only
\*   "valid"       the Base64 of the DER key
\*   "badpadding"  Base64 characters whose count or padding is wrong
\*   "badchars"    the Base64 of some bytes with characters outside the
\*                 alphabet mixed in
Methods == {"anonymous", "AdobeID"}
MethodAttrs == {"absent", "nomethod"} \cup Methods
KeyTexts == {"absent", "empty", "blank", "valid", "badpadding", "badchars"}

NoDoc == [parses |-> FALSE, credentials |-> "absent", username |-> "absent",
          key |-> "absent"]
Docs == {NoDoc} \cup [parses : {TRUE}, credentials : MethodAttrs,
                      username : MethodAttrs, key : KeyTexts]

\* base64.b64decode(text.strip()) with validate left False: characters
\* outside the alphabet are dropped before the padding is checked.
b64decode(text) ==
    CASE text = "valid" -> [raises |-> "none", bytes |-> "key"]
      [] text = "blank" -> [raises |-> "none", bytes |-> "nothing"]
      [] text = "badchars" -> [raises |-> "none", bytes |-> "other"]
      [] OTHER -> [raises |-> "binascii.Error", bytes |-> "none"]

\* AdobeAccount.get_auth_type: the value it returns.
get_auth_type ==
    IF ~is_authorized THEN "none"
    ELSE IF "activation.xml" \notin files \/ ~doc.parses THEN "unknown"
    ELSE IF doc.username \in Methods THEN doc.username
    ELSE "anonymous"

\* AdobeAccount.get_device_key: the exception it raises ("none": it returns)
\* and the bytes it returns.
DeviceKey ==
    IF "activation.xml" \notin files
    THEN [raises |-> "AuthorizationError", bytes |-> "none"]
    ELSE IF ~doc.parses \/ doc.key \in {"absent", "empty"}
    THEN [raises |-> "AuthorizationError", bytes |-> "none"]
    ELSE IF b64decode(doc.key).raises # "none"
    THEN [raises |-> "AuthorizationError", bytes |-> "none"]
    ELSE [raises |-> "none", bytes |-> b64decode(doc.key).bytes]

\* The five registration steps, in the order the code calls them.
StepOrder == <<"createDeviceKeyFile", "createDeviceFile", "createUser",
               "signIn", "activateDevice">>

\* How a library step can end: it succeeds, it raises, or (the server steps,
\* as signIn does) it returns a failure status without raising.
StepOutcomes(step) ==
    IF step \in {"createUser", "signIn", "activateDevice"}
    THEN {"ok", "error", "raise"}
    ELSE {"ok", "raise"}

\* What a step that succeeded persists (spec 4.3).
StepEffect(step) ==
    CASE step = "createDeviceKeyFile" ->
            /\ files' = files \cup {"devicesalt"}
            /\ salt' = nGen + 1
            /\ nGen' = nGen + 1
            /\ UNCHANGED <<device, activation, doc>>
      [] step = "createDeviceFile" ->
            /\ files' = files \cup {"device.xml"}
            /\ device' = salt
            /\ UNCHANGED <<salt, nGen, activation, doc>>
      [] step = "createUser" ->
            UNCHANGED <<files, salt, device, nGen, activation, doc>>
      [] step = "signIn" ->
            /\ files' = files \cup {"activation.xml"}
            /\ activation' = "signedin"
            /\ doc' = [parses |-> TRUE, credentials |-> "absent",
                       username |-> method, key |-> "valid"]
            /\ UNCHANGED <<salt, device, nGen>>
      [] step = "activateDevice" ->
            /\ activation' = IF "activation.xml" \in files THEN "activated" ELSE activation
            /\ doc' = IF "activation.xml" \in files
                      THEN [doc EXCEPT !.credentials = method] ELSE doc
            /\ UNCHANGED <<files, salt, device, nGen>>

StepIndex(step) == CHOOSE i \in 1..5 : StepOrder[i] = step

\* Where the caller of authorize_* continues once the authorization returned.
AfterAuthorize ==
    IF op = "process_acsm"
    THEN /\ pc' = "fulfill"
         /\ op' = op
         /\ result' = result
    ELSE /\ pc' = "idle"
         /\ op' = "idle"
         /\ result' = "ok"

\* authorize_anonymous / authorize_adobe_id: one library step.  Every
\* exception becomes AuthorizationError; only signIn's return value is read.
AuthorizeStep(step, outcome) ==
    /\ pc = step
    /\ steps' = Append(steps, [step |-> step, outcome |-> outcome])
    /\ IF outcome = "ok"
       THEN StepEffect(step)
       ELSE UNCHANGED <<files, salt, device, nGen, activation, doc>>
    /\ IF outcome = "raise" \/ (step = "signIn" /\ outcome = "error")
       THEN /\ pc' = "idle"
            /\ op' = "idle"
            /\ result' = "AuthorizationError"
       ELSE IF step = "activateDevice"
            THEN AfterAuthorize
            ELSE /\ pc' = StepOrder[StepIndex(step) + 1]
                 /\ UNCHANGED <<op, result>>
    /\ authEnd' = IF outcome = "raise" \/ (step = "signIn" /\ outcome = "error")
                  THEN "AuthorizationError"
                  ELSE IF step = "activateDevice" THEN "returned" ELSE authEnd
    /\ UNCHANGED <<method, startFiles, fulfillReqs, reqLog, acsmExists>>
    /\ UNCHANGED workVars

createDeviceKeyFile ==
    \E o \in StepOutcomes("createDeviceKeyFile") : AuthorizeStep("createDeviceKeyFile", o)
createDeviceFile ==
    \E o \in StepOutcomes("createDeviceFile") : AuthorizeStep("createDeviceFile", o)
createUser ==
    \E o \in StepOutcomes("createUser") : AuthorizeStep("createUser", o)
signIn ==
    \E o \in StepOutcomes("signIn") : AuthorizeStep("signIn", o)
activateDevice ==
    \E o \in StepOutcomes("activateDevice") : AuthorizeStep("activateDevice", o)

\* Entering authorize_anonymous or authorize_adobe_id from a caller.
BeginAuthorize(caller, m) ==
    /\ nGen < MaxGen
    /\ op' = caller
    /\ pc' = "createDeviceKeyFile"
    /\ method' = m
    /\ steps' = <<>>
    /\ startFiles' = files
    /\ authEnd' = "running"
    /\ result' = "none"

\* A direct call of AdobeAccount.authorize_anonymous.
authorize_anonymous ==
    /\ op = "idle"
    /\ BeginAuthorize("authorize_anonymous", "anonymous")
    /\ UNCHANGED <<files, salt, device, activation, doc, nGen, fulfillReqs, reqLog, acsmExists>>
    /\ UNCHANGED workVars

\* A direct call of AdobeAccount.authorize_adobe_id.
authorize_adobe_id ==
    /\ op = "idle"
    /\ BeginAuthorize("authorize_adobe_id", "AdobeID")
    /\ UNCHANGED <<files, salt, device, activation, doc, nGen, fulfillReqs, reqLog, acsmExists>>
    /\ UNCHANGED workVars

\* The reset of an earlier revision: activation.dat is left behind.
reset_standard_only ==
    /\ op = "idle"
    /\ files' = files \ {"activation.xml", "device.xml", "devicesalt"}
    /\ salt' = 0
    /\ device' = 0
    /\ activation' = "none"
    /\ doc' = NoDoc
    /\ result' = "ok"
    /\ UNCHANGED <<nGen, op, pc, method, steps, startFiles, authEnd, fulfillReqs, reqLog, acsmExists>>
    /\ UNCHANGED workVars

\* AdobeAccount.reset.
reset ==
    /\ op = "idle"
    /\ files' = files \ {"activation.xml", "activation.dat", "device.xml", "devicesalt"}
    /\ salt' = 0
    /\ device' = 0
    /\ activation' = "none"
    /\ doc' = NoDoc
    /\ result' = "ok"
    /\ UNCHANGED <<nGen, op, pc, method, steps, startFiles, authEnd, fulfillReqs, reqLog, acsmExists>>
    /\ UNCHANGED workVars

\* cli.py 'auth create': refuses when an authorization exists.
create_auth ==
    /\ op = "idle"
    /\ IF is_authorized
       THEN /\ result' = "ok"
            /\ UNCHANGED <<op, pc, method, steps, startFiles, authEnd>>
       ELSE \E m \in {"anonymous", "AdobeID"} : BeginAuthorize("create_auth", m)
    /\ UNCHANGED <<files, salt, device, activation, doc, nGen, fulfillReqs, reqLog, acsmExists>>
    /\ UNCHANGED workVars

(***************************************************************************)
(* ACSMFulfiller.fulfill                                                   *)
(***************************************************************************)
\* An exception leaves the top-level call.
Raise(err) ==
    /\ op' = "idle"
    /\ pc' = "idle"
    /\ result' = err

\* fulfill.py 31-37: the guards before the library is used.
fulfill_check ==
    /\ pc = "fulfill"
    /\ IF ~is_authorized \/ ~acsmExists
       THEN Raise("ACSMFulfillmentError")
       ELSE /\ pc' = "fulfill_request"
            /\ UNCHANGED <<op, result>>
    /\ UNCHANGED <<files, salt, device, activation, doc, nGen, method, steps,
                   startFiles, authEnd, fulfillReqs, reqLog, acsmExists>>
    /\ UNCHANGED workVars

\* fulfill.py 47-51: libadobeFulfill.fulfill issues the fulfillment request.
fulfill_request ==
    /\ pc = "fulfill_request"
    /\ fulfillReqs' = fulfillReqs + 1
    /\ \E outcome \in {"ok", "error", "timeout", "raise"} :
          /\ reqLog' = Append(reqLog, outcome)
          /\ IF outcome = "ok"
             THEN /\ pc' = "download"
                  /\ UNCHANGED <<op, result>>
             ELSE Raise("ACSMFulfillmentError")
    /\ UNCHANGED <<files, salt, device, activation, doc, nGen, method, steps,
                   startFiles, authEnd, acsmExists>>
    /\ UNCHANGED workVars

\* fulfill.py 56-61: the download; the code removes nothing when it fails.
download ==
    /\ pc = "download"
    /\ \E outcome \in {"ok", "nofile", "raise"}, sfx \in {".epub", ".pdf"} :
          CASE outcome = "ok" ->
                  /\ encFile' = "present"
                  /\ suffix' = sfx
                  /\ IF op = "process_acsm"
                     THEN /\ pc' = "get_device_key"
                          /\ UNCHANGED <<op, result, retPath>>
                     ELSE /\ op' = "idle"
                          /\ pc' = "idle"
                          /\ result' = "ok"
                          /\ retPath' = "encrypted"
            [] outcome = "nofile" ->
                  /\ Raise("ACSMFulfillmentError")
                  /\ UNCHANGED <<encFile, suffix, retPath>>
            [] outcome = "raise" ->
                  /\ Raise("ACSMFulfillmentError")
                  /\ encFile' \in {"absent", "partial"}
                  /\ UNCHANGED <<suffix, retPath>>
    /\ UNCHANGED <<files, salt, device, activation, doc, nGen, method, steps,
                   startFiles, authEnd, fulfillReqs, reqLog, acsmExists, to_pdf, keep_encrypted,
                   decFile, pdfFile>>

\* A fresh output directory for a new call.
FreshOutput ==
    /\ encFile' = "absent"
    /\ suffix' = ".epub"
    /\ decFile' = "absent"
    /\ pdfFile' = "absent"
    /\ retPath' = "none"

\* A direct call of ACSMFulfiller.fulfill.
fulfill ==
    /\ op = "idle"
    /\ fulfillReqs < MaxReqs
    /\ op' = "fulfill"
    /\ pc' = "fulfill"
    /\ result' = "none"
    /\ acsmExists' \in BOOLEAN
    /\ FreshOutput
    /\ reqLog' = << >>
    /\ UNCHANGED <<files, salt, device, activation, doc, nGen, method, steps,
                   startFiles, authEnd, fulfillReqs, to_pdf, keep_encrypted>>

(***************************************************************************)
(* BookLoader.process_acsm                                                 *)
(***************************************************************************)
\* workflow.py 45-49: authorize anonymously when is_authorized() is false.
process_acsm ==
    /\ op = "idle"
    /\ fulfillReqs < MaxReqs
    /\ acsmExists' \in BOOLEAN
    /\ to_pdf' \in BOOLEAN
    /\ keep_encrypted' \in BOOLEAN
    /\ FreshOutput
    /\ IF ~is_authorized
       THEN BeginAuthorize("process_acsm", "anonymous")
       ELSE /\ op' = "process_acsm"
            /\ pc' = "fulfill"
            /\ result' = "none"
            /\ UNCHANGED <<method, steps, startFiles, authEnd>>
    /\ reqLog' = << >>
    /\ UNCHANGED <<files, salt, device, activation, doc, nGen, fulfillReqs>>

\* account.py 115-143, called at workflow.py 60.
get_device_key ==
    /\ pc = "get_device_key"
    /\ IF DeviceKey.raises # "none"
       THEN Raise(DeviceKey.raises)
       ELSE /\ pc' = "remove_drm"
            /\ UNCHANGED <<op, result>>
    /\ UNCHANGED <<files, salt, device, activation, doc, nGen, method, steps,
                   startFiles, authEnd, fulfillReqs, reqLog, acsmExists>>
    /\ UNCHANGED workVars

\* remover.py 12-74, called at workflow.py 61: decryptBook's result code.
remove_drm ==
    /\ pc = "remove_drm"
    /\ \E code \in {0, 1, 2} :
          CASE code = 0 ->
                  /\ decFile' = "decrypted"
                  /\ pc' = "cleanup"
                  /\ UNCHANGED <<op, result>>
            [] code = 1 ->
                  /\ decFile' = "copy"
                  /\ pc' = "cleanup"
                  /\ UNCHANGED <<op, result>>
            [] code = 2 ->
                  /\ decFile' \in {"absent", "partial"}
                  /\ Raise("DRMRemovalError")
    /\ UNCHANGED <<files, salt, device, activation, doc, nGen, method, steps,
                   startFiles, authEnd, fulfillReqs, reqLog, acsmExists, to_pdf, keep_encrypted,
                   encFile, suffix, pdfFile, retPath>>

\* cleanup with the test of keep_encrypted left out.
cleanup_always ==
    /\ pc = "cleanup"
    /\ encFile' = "absent"
    /\ pc' = "convert"
    /\ UNCHANGED <<files, salt, device, activation, doc, nGen, op, method, steps,
                   startFiles, authEnd, result, fulfillReqs, reqLog, acsmExists, to_pdf,
                   keep_encrypted, suffix, decFile, pdfFile, retPath>>

\* workflow.py 66-72: the encrypted download is deleted unless kept.
cleanup ==
    /\ pc = "cleanup"
    /\ encFile' = IF keep_encrypted THEN encFile ELSE "absent"
    /\ pc' = "convert"
    /\ UNCHANGED <<files, salt, device, activation, doc, nGen, op, method, steps,
                   startFiles, authEnd, result, fulfillReqs, reqLog, acsmExists, to_pdf,
                   keep_encrypted, suffix, decFile, pdfFile, retPath>>

\* convert with the unlink of the EPUB placed before the conversion.
convert_unlink_first ==
    /\ pc = "convert"
    /\ IF to_pdf /\ suffix = ".epub"
       THEN \E converted \in BOOLEAN :
               /\ decFile' = IF keep_encrypted THEN decFile ELSE "absent"
               /\ IF converted
                  THEN /\ pdfFile' = "present"
                       /\ retPath' = "pdf"
                  ELSE /\ retPath' = "decrypted"
                       /\ UNCHANGED pdfFile
       ELSE /\ retPath' = "decrypted"
            /\ UNCHANGED <<pdfFile, decFile>>
    /\ op' = "idle"
    /\ pc' = "idle"
    /\ result' = "ok"
    /\ UNCHANGED <<files, salt, device, activation, doc, nGen, method, steps,
                   startFiles, authEnd, fulfillReqs, reqLog, acsmExists, to_pdf, keep_encrypted,
                   encFile, suffix>>

\* workflow.py 82-100: the optional PDF conversion, and the return.
convert ==
    /\ pc = "convert"
    /\ IF to_pdf /\ suffix = ".epub"
       THEN \E converted \in BOOLEAN :
               IF converted
               THEN /\ pdfFile' = "present"
                    /\ decFile' = IF keep_encrypted THEN decFile ELSE "absent"
                    /\ retPath' = "pdf"
               ELSE /\ retPath' = "decrypted"
                    /\ UNCHANGED <<pdfFile, decFile>>
       ELSE /\ retPath' = "decrypted"
            /\ UNCHANGED <<pdfFile, decFile>>
    /\ op' = "idle"
    /\ pc' = "idle"
    /\ result' = "ok"
    /\ UNCHANGED <<files, salt, device, activation, doc, nGen, method, steps,
                   startFiles, authEnd, fulfillReqs, reqLog, acsmExists, to_pdf, keep_encrypted,
                   encFile, suffix>>

(***************************************************************************)
(* The authorization store and the ACSM workflow as a state machine        *)
(***************************************************************************)
MaxCalls == 2     \* remove_drm calls in one behaviour

\* What a path holds: nothing, a truncated or otherwise unreadable file, or
\* an Adept container.  A container carries the publication it holds, whether
\* it is protected (META-INF/rights.xml, or the ADEPT entry of a PDF), the
\* user key its content key is wrapped under, and whether every protected
\* member is well formed under a known cipher.
Publications == {"novel", "manual"}
UserKeys == {"mine", "other"}
Absent == [kind |-> "absent", drm |-> FALSE, wrapped |-> "", intact |-> FALSE,
           pub |-> ""]
Partial == [kind |-> "partial", drm |-> FALSE, wrapped |-> "", intact |-> FALSE,
            pub |-> ""]
Container(protected, key, sound, p) ==
    [kind |-> "container", drm |-> protected, wrapped |-> key, intact |-> sound,
     pub |-> p]
Plain(p) == Container(FALSE, "", TRUE, p)
Contents ==
    {Absent, Partial}
        \cup {Plain(p) : p \in Publications}
        \cup {Container(TRUE, k, i, p) :
                  k \in UserKeys, i \in BOOLEAN, p \in Publications}

\* The paths of a behaviour, and Path.suffix of each.
Paths == {"a.epub", "b.EPUB", "c.pdf", "d.txt"}
Suffix(path) ==
    CASE path = "a.epub" -> ".epub"
      [] path = "b.EPUB" -> ".EPUB"
      [] path = "c.pdf" -> ".pdf"
      [] OTHER -> ".txt"

\* Nothing on the paths DRMRemover works on, and no call made.
NoCall == [n |-> 0, ran |-> FALSE, src |-> "", dst |-> "", key |-> "", code |-> "none",
           raises |-> "none", srcWas |-> Absent, dstWas |-> Absent,
           prev |-> [dst |-> "", key |-> "", code |-> "none"]]
DrmIdle ==
    /\ fs = [p \in Paths |-> Absent]
    /\ drm = NoCall

\* No call on the key store has been made.
NoAnswer == [call |-> "none", value |-> "none", raises |-> "none"]

KoboIdle ==
    /\ book = [title |-> "", has_drm |-> FALSE, members |-> << >>]
    /\ userkeys = << >>
    /\ outFile = [state |-> "absent", key |-> 0, members |-> << >>]
    /\ outFile0 = outFile
    /\ kpc = "idle"
    /\ keyIdx = 0
    /\ entryIdx = 0
    /\ rejected = 0
    /\ last = [key |-> 0, stem |-> "", ext |-> "", encrypted |-> FALSE,
               data |-> << >>, contents |-> << >>, checked |-> FALSE,
               outcome |-> "none"]
    /\ kresult = [kind |-> "none", title |-> ""]

(***************************************************************************)
(* cli.py: the commands                                                    *)
(***************************************************************************)
\* No command has run.
NoCmd == [name |-> "none", pc |-> "done", overwrite |-> FALSE,
          skip_existing |-> FALSE, opened |-> FALSE, raised |-> "none",
          exit |-> 0, backup |-> FALSE, deleted |-> {}]

\* A command that ended: what left its try block, and the exit status.
Ended(name, raised, exit) == [NoCmd EXCEPT !.name = name, !.raised = raised, !.exit = exit]

NoSnap == [state |-> "none", bytes |-> << >>]
NoConflict == [called |-> FALSE, overwrite |-> FALSE, skip_existing |-> FALSE,
               exists |-> FALSE, batch_mode |-> FALSE, action |-> "none",
               prompted |-> FALSE, raises |-> "none"]
CliIdle ==
    /\ cmd = NoCmd
    /\ kobodb = [exists |-> FALSE, bytes |-> << >>, rows |-> "none"]
    /\ snap = NoSnap
    /\ conflict = NoConflict

NoContext == [op |-> "idle", pc |-> "idle", method |-> "anonymous", steps |-> << >>,
              startFiles |-> {}, authEnd |-> "none", result |-> "none"]
ConcIdle ==
    /\ cur = 1
    /\ susp = NoContext
    /\ writer = [f \in AuthFiles |-> 0]
    /\ runs = 0

\* cli.py 'auth reset', after the confirmation: a backup archive is written
\* when the store is authorized (backup_auth may fail, and reset is then not
\* reached), and reset deletes whatever files there are.
reset_auth ==
    \E backup_ok \in BOOLEAN :
        /\ op = "idle"
        /\ IF is_authorized /\ ~backup_ok
           THEN /\ cmd' = Ended("auth reset", "Exception", 1)
                /\ UNCHANGED authVars
           ELSE /\ reset
                /\ cmd' = [Ended("auth reset", "none", 0) EXCEPT
                              !.backup = is_authorized, !.deleted = files]
        /\ UNCHANGED <<kobodb, snap, conflict>>

\* The directory is empty, or holds an activation.dat taken over from ADE.
InitAuth ==
    /\ files \in {{}, {"activation.dat"}}
    /\ salt = 0
    /\ device = 0
    /\ activation = "none"
    /\ doc = NoDoc
    /\ nGen = 0
    /\ op = "idle"
    /\ pc = "idle"
    /\ method = "anonymous"
    /\ steps = <<>>
    /\ startFiles = {}
    /\ authEnd = "none"
    /\ result = "none"
    /\ fulfillReqs = 0
    /\ reqLog = << >>
    /\ acsmExists = TRUE
    /\ to_pdf = FALSE
    /\ keep_encrypted = FALSE
    /\ encFile = "absent"
    /\ suffix = ".epub"
    /\ decFile = "absent"
    /\ pdfFile = "absent"
    /\ retPath = "none"
    /\ KoboIdle
    /\ answer = NoAnswer
    /\ DrmIdle
    /\ CliIdle
    /\ ConcIdle

NextAuth ==
    \/ (authorize_anonymous /\ UNCHANGED nonAuthVars)
    \/ (authorize_adobe_id /\ UNCHANGED nonAuthVars)
    \/ (create_auth /\ UNCHANGED nonAuthVars)
    \/ (createDeviceKeyFile /\ UNCHANGED nonAuthVars)
    \/ (createDeviceFile /\ UNCHANGED nonAuthVars)
    \/ (createUser /\ UNCHANGED nonAuthVars)
    \/ (signIn /\ UNCHANGED nonAuthVars)
    \/ (activateDevice /\ UNCHANGED nonAuthVars)
    \/ (reset /\ UNCHANGED nonAuthVars)
    \/ (reset_auth /\ UNCHANGED <<koboVars, storeVars, drmVars, concVars>>)
    \/ (fulfill /\ UNCHANGED nonAuthVars)
    \/ (process_acsm /\ UNCHANGED nonAuthVars)
    \/ (fulfill_check /\ UNCHANGED nonAuthVars)
    \/ (fulfill_request /\ UNCHANGED nonAuthVars)
    \/ (download /\ UNCHANGED nonAuthVars)
    \/ (get_device_key /\ UNCHANGED nonAuthVars)
    \/ (remove_drm /\ UNCHANGED nonAuthVars)
    \/ (cleanup /\ UNCHANGED nonAuthVars)
    \/ (convert /\ UNCHANGED nonAuthVars)

SpecAuth == InitAuth /\ [][NextAuth]_vars

(***************************************************************************)
(* Kobo KEPUB trial decryption (core/kobo/decryptor.py)                    *)
(***************************************************************************)
MaxMembers == 2   \* archive members of a book
MaxKeys == 2      \* candidate user keys given to decrypt_book

BlockSize == 16   \* the AES block size

\* Key identities: GoodKey is the user key the book's page keys are wrapped
\* under, the others are wrong keys.  Every user key is 16 bytes long
\* (library.py 203: the second half of a SHA-256 hex digest).
GoodKey == 1
KeyIds == {1, 2}

Min(a, b) == IF a < b THEN a ELSE b

\* content followed by its PKCS#7 padding up to one block.
Pad(content) ==
    content \o [i \in 1..(BlockSize - Len(content)) |-> BlockSize - Len(content)]

\* One block: a 5-byte head, ten filler bytes and a final byte.
Mk(head, fill, final) == head \o [i \in 1..10 |-> fill] \o <<final>>

HXml == <<60, 63, 120, 109, 108>>      \* "<?xml"
HJpg == <<255, 216, 255, 224, 0>>      \* the JPEG magic and two more bytes
HEdge == <<32, 127, 60, 63, 120>>      \* the lowest and highest accepted bytes
HBad5 == <<60, 63, 120, 109, 128>>     \* the fifth byte above 127
HLow == <<31, 63, 120, 109, 108>>      \* the first byte below 32
HCss == <<98, 111, 100, 121, 123>>     \* "body{"

\* What AES-ECB decryption under a wrong key can give for one block: any
\* bytes.  A sample with valid and invalid PKCS#7 endings, long and short.
Garbage16 ==
    {Pad(c) : c \in {<< >>, <<255, 216>>, <<1, 2>>, <<60, 7>>, HEdge, HBad5, HLow,
                     HJpg, HXml \o <<0>>}}
    \cup {Mk(h, 65, f) : h \in {HXml, HJpg}, f \in {0, 11, 200}}

Garbage(n) == IF n = 0 THEN {<< >>} ELSE Garbage16

ValidPKCS7(data) ==
    /\ Len(data) > 0
    /\ LET p == data[Len(data)]
       IN  /\ p >= 1
           /\ p <= BlockSize
           /\ p <= Len(data)
           /\ \A i \in (Len(data) - p + 1)..Len(data) : data[i] = p

\* str.lower() on the suffixes used here.
Lower(ext) ==
    CASE ext = ".HTML" -> ".html"
      [] ext = ".JPEG" -> ".jpeg"
      [] ext = ".EPUB" -> ".epub"
      [] OTHER -> ext

\* Archive members: name, whether content_keys lists it, the length of its
\* wrapped page key, the length of its stored bytes and, for an encrypted
\* member, the padded plaintext the publisher encrypted.
Member(stem, ext, enc, wlen, clen, plain) ==
    [stem |-> stem, ext |-> ext, encrypted |-> enc, wrapped |-> wlen,
     clen |-> clen, plain |-> plain]

MemberFixtures ==
    { Member("mimetype", "", FALSE, 0, 16, Pad(HCss)),
      Member("ch1", ".xhtml", TRUE, 16, 16, Pad(HXml)),
      Member("ch2", ".HTML", TRUE, 16, 16, Pad(HEdge)),
      Member("img", ".jpg", TRUE, 16, 16, Pad(HJpg)),
      Member("style", ".css", TRUE, 16, 16, Pad(HCss)),
      Member("empty", ".xhtml", TRUE, 16, 0, << >>),
      Member("odd", ".css", TRUE, 16, 10, << >>),
      Member("k10", ".css", TRUE, 10, 16, Pad(HCss)),
      Member("k32", ".css", TRUE, 32, 16, Pad(HCss)),
      Member("k0", ".css", TRUE, 0, 16, Pad(HCss)) }

SeqsUpTo(S, n) == UNION {[1..k -> S] : k \in 0..n}

\* A book with DRM has rows in content_keys (library.py 96-128): at least
\* one member is encrypted.  A DRM-free book is copied whole.
Books ==
    {[title |-> "A", has_drm |-> TRUE, members |-> ms] :
        ms \in {x \in SeqsUpTo(MemberFixtures, MaxMembers) :
                   \E i \in 1..Len(x) : x[i].encrypted}}
    \cup {[title |-> "B", has_drm |-> FALSE,
           members |-> <<Member("mimetype", "", FALSE, 0, 16, Pad(HCss))>>]}

\* decryptor.py 16-19: data[:-pad_len]; nothing is validated.  Python gives
\* the empty string for a pad_len of 0 and for one that is the length or more.
unpad(data) ==
    LET pad_len == data[Len(data)]
    IN  IF pad_len = 0 \/ pad_len >= Len(data)
        THEN << >>
        ELSE SubSeq(data, 1, Len(data) - pad_len)

\* decryptor.py 30-32: the loop over the first min(5, len) bytes; TRUE when
\* it raises no ValueError from position i on.
RECURSIVE AsciiLoop(_, _)
AsciiLoop(contents, i) ==
    IF i > Min(5, Len(contents))
    THEN TRUE
    ELSE IF contents[i] < 32 \/ contents[i] > 127
         THEN FALSE
         ELSE AsciiLoop(contents, i + 1)

\* check_decrypted_content with the JPEG test applied to plaintexts of any
\* length.
check_decrypted_content_strict(ext, contents) ==
    LET lower == Lower(ext)
    IN  IF lower = ".xhtml" \/ lower = ".html" \/ lower = ".htm"
        THEN AsciiLoop(contents, 1)
        ELSE IF lower = ".jpg" \/ lower = ".jpeg"
             THEN Len(contents) >= 3 /\ SubSeq(contents, 1, 3) = <<255, 216, 255>>
             ELSE TRUE

\* decryptor.py 22-35: TRUE when _check_decrypted_content returns, FALSE
\* when it raises ValueError.
check_decrypted_content(ext, contents) ==
    LET lower == Lower(ext)
    IN  IF lower = ".xhtml" \/ lower = ".html" \/ lower = ".htm"
        THEN AsciiLoop(contents, 1)
        ELSE IF lower = ".jpg" \/ lower = ".jpeg"
             THEN ~(Len(contents) >= 3 /\ SubSeq(contents, 1, 3) # <<255, 216, 255>>)
             ELSE TRUE

\* AES.new(key, MODE_ECB) accepts keys of 16, 24 or 32 bytes, and decrypt
\* accepts data whose length is a multiple of the block size; both raise
\* ValueError otherwise.
AESKeyOk(keylen) == keylen \in {16, 24, 32}
Aligned(n) == n % BlockSize = 0

\* decryptor.py 77-79: ValueError from the two AES layers for this member.
AESValueError(m) ==
    \/ ~Aligned(m.wrapped)       \* layer 1: decrypt(encrypted_page_key)
    \/ ~AESKeyOk(m.wrapped)      \* layer 2: AES.new(page_key)
    \/ ~Aligned(m.clen)          \* layer 2: decrypt(contents)

\* The layer-2 plaintexts AES can give for this member under this user key.
Layer2(m, userkey) ==
    IF userkey = GoodKey THEN {m.plain} ELSE Garbage(m.clen)

NoFile == [state |-> "absent", key |-> 0, members |-> << >>]
OldFile == [state |-> "old", key |-> 0, members |-> << >>]
NoEntry == [key |-> 0, stem |-> "", ext |-> "", encrypted |-> FALSE,
            data |-> << >>, contents |-> << >>, checked |-> FALSE,
            outcome |-> "none"]

\* RejectKey without the unlink of the output.
RejectKeyKeepsOutput ==
    /\ outFile' = [outFile EXCEPT !.state = "closed"]
    /\ rejected' = rejected + 1
    /\ keyIdx' = keyIdx + 1
    /\ kpc' = "key"
    /\ UNCHANGED <<entryIdx, kresult>>

\* decryptor.py 86-89: the except branch closes and deletes the output and
\* the loop goes on to the next user key.
RejectKey ==
    /\ outFile' = NoFile
    /\ rejected' = rejected + 1
    /\ keyIdx' = keyIdx + 1
    /\ kpc' = "key"
    /\ UNCHANGED <<entryIdx, kresult>>

\* zout.writestr called twice for a member.
writestr_twice(archive, m, contents, attempt) ==
    archive \o << [stem |-> m.stem, ext |-> m.ext, contents |-> contents,
                   attempt |-> attempt],
                  [stem |-> m.stem, ext |-> m.ext, contents |-> contents,
                   attempt |-> attempt] >>

\* decryptor.py 82: zout.writestr(entry_name, contents) adds one member to
\* the archive; attempt records the candidate key in use.
writestr(archive, m, contents, attempt) ==
    Append(archive, [stem |-> m.stem, ext |-> m.ext, contents |-> contents,
                     attempt |-> attempt])

\* decryptor.py 61-67: the output path, the DRM-free copy, opening the input.
decrypt_book ==
    /\ kpc = "start"
    /\ IF ~book.has_drm
       THEN /\ outFile' = [state |-> "copy", key |-> 0, members |-> book.members]
            /\ kresult' = [kind |-> "returned", title |-> ""]
            /\ kpc' = "done"
            /\ UNCHANGED keyIdx
       ELSE /\ kpc' = "key"
            /\ keyIdx' = 1
            /\ UNCHANGED <<outFile, kresult>>
    /\ UNCHANGED <<book, userkeys, outFile0, entryIdx, rejected, last>>

\* try_key taking the candidate keys from the end of the list.
try_key_reversed ==
    /\ kpc = "key"
    /\ IF keyIdx > Len(userkeys)
       THEN /\ kresult' = [kind |-> "KoboDecryptionError", title |-> book.title]
            /\ kpc' = "done"
            /\ UNCHANGED <<outFile, entryIdx>>
       ELSE /\ outFile' = [state |-> "open",
                           key |-> userkeys[Len(userkeys) - keyIdx + 1],
                           members |-> << >>]
            /\ entryIdx' = 1
            /\ kpc' = "entry"
            /\ UNCHANGED kresult
    /\ UNCHANGED <<book, userkeys, outFile0, keyIdx, rejected, last>>

\* decryptor.py 69-71 and 91-95: the next candidate key opens a new output
\* archive at the output path; with no candidate left the call raises.
try_key ==
    /\ kpc = "key"
    /\ IF keyIdx > Len(userkeys)
       THEN /\ kresult' = [kind |-> "KoboDecryptionError", title |-> book.title]
            /\ kpc' = "done"
            /\ UNCHANGED <<outFile, entryIdx>>
       ELSE /\ outFile' = [state |-> "open", key |-> userkeys[keyIdx], members |-> << >>]
            /\ entryIdx' = 1
            /\ kpc' = "entry"
            /\ UNCHANGED kresult
    /\ UNCHANGED <<book, userkeys, outFile0, keyIdx, rejected, last>>

\* decryptor.py 72-82: one archive member.
process_entry ==
    /\ kpc = "entry"
    /\ entryIdx <= Len(book.members)
    /\ LET m == book.members[entryIdx]
           userkey == userkeys[keyIdx]
           seen == [key |-> userkey, stem |-> m.stem, ext |-> m.ext,
                    encrypted |-> m.encrypted, data |-> << >>,
                    contents |-> << >>, checked |-> FALSE, outcome |-> "none"]
           Write(contents) ==
               /\ outFile' = [outFile EXCEPT
                     !.members = writestr(@, m, contents, keyIdx)]
               /\ entryIdx' = entryIdx + 1
               /\ UNCHANGED <<kpc, keyIdx, rejected, kresult>>
       IN  IF ~m.encrypted
           THEN /\ Write(m.plain)
                /\ last' = [seen EXCEPT !.contents = m.plain, !.outcome = "copied"]
           ELSE IF AESValueError(m)
           THEN /\ RejectKey
                /\ last' = [seen EXCEPT !.outcome = "ValueError"]
           ELSE \E data \in Layer2(m, userkey) :
                   IF Len(data) = 0
                   THEN \* data[-1] on an empty plaintext: IndexError is not caught
                        /\ kresult' = [kind |-> "IndexError", title |-> ""]
                        /\ kpc' = "done"
                        /\ last' = [seen EXCEPT !.outcome = "IndexError"]
                        /\ UNCHANGED <<outFile, entryIdx, keyIdx, rejected>>
                   ELSE IF check_decrypted_content(m.ext, unpad(data))
                   THEN /\ Write(unpad(data))
                        /\ last' = [seen EXCEPT !.data = data, !.contents = unpad(data),
                                                !.checked = TRUE, !.outcome = "written"]
                   ELSE /\ RejectKey
                        /\ last' = [seen EXCEPT !.data = data, !.contents = unpad(data),
                                                !.checked = TRUE, !.outcome = "ValueError"]
    /\ UNCHANGED <<book, userkeys, outFile0>>

\* decryptor.py 83-85: every member passed; close and return.
close_output ==
    /\ kpc = "entry"
    /\ entryIdx > Len(book.members)
    /\ outFile' = [outFile EXCEPT !.state = "complete"]
    /\ kresult' = [kind |-> "returned", title |-> ""]
    /\ kpc' = "done"
    /\ UNCHANGED <<book, userkeys, outFile0, keyIdx, entryIdx, rejected, last>>

AuthIdle ==
    /\ files = {}
    /\ salt = 0
    /\ device = 0
    /\ activation = "none"
    /\ doc = NoDoc
    /\ nGen = 0
    /\ op = "idle"
    /\ pc = "idle"
    /\ method = "anonymous"
    /\ steps = << >>
    /\ startFiles = {}
    /\ authEnd = "none"
    /\ result = "none"
    /\ fulfillReqs = 0
    /\ reqLog = << >>
    /\ acsmExists = TRUE
    /\ to_pdf = FALSE
    /\ keep_encrypted = FALSE
    /\ encFile = "absent"
    /\ suffix = ".epub"
    /\ decFile = "absent"
    /\ pdfFile = "absent"
    /\ retPath = "none"

\* Any book, any list of candidate keys, and an output path that is free or
\* holds the file of an earlier run.
InitKobo ==
    /\ AuthIdle
    /\ answer = NoAnswer
    /\ DrmIdle
    /\ CliIdle
    /\ ConcIdle
    /\ book \in Books
    /\ userkeys \in SeqsUpTo(KeyIds, MaxKeys)
    /\ outFile \in {NoFile, OldFile}
    /\ outFile0 = outFile
    /\ kpc = "start"
    /\ keyIdx = 0
    /\ entryIdx = 0
    /\ rejected = 0
    /\ last = NoEntry
    /\ kresult = [kind |-> "none", title |-> ""]

NextKobo ==
    \/ (decrypt_book /\ UNCHANGED nonKoboVars)
    \/ (try_key /\ UNCHANGED nonKoboVars)
    \/ (process_entry /\ UNCHANGED nonKoboVars)
    \/ (close_output /\ UNCHANGED nonKoboVars)

SpecKobo == InitKobo /\ [][NextKobo]_vars

(***************************************************************************)
(* The key store on its own: any authorization directory, and the calls    *)
(* that read or clear it (account.py 28-65, 115-149)                       *)
(***************************************************************************)
\* Any combination of the four files; activation.xml, when there, with any
\* content.  The directory is written by the registration, by a restored
\* backup, or by another Adobe client.
InitStore ==
    /\ files \in SUBSET AuthFiles
    /\ doc \in IF "activation.xml" \in files THEN Docs ELSE {NoDoc}
    /\ activation = IF "activation.xml" \notin files THEN "none"
                    ELSE IF doc.credentials = "absent" THEN "signedin"
                    ELSE "activated"
    /\ salt = IF "devicesalt" \in files THEN 1 ELSE 0
    /\ device = IF "device.xml" \in files THEN 1 ELSE 0
    /\ nGen = 1
    /\ op = "idle"
    /\ pc = "idle"
    /\ method = "anonymous"
    /\ steps = << >>
    /\ startFiles = {}
    /\ authEnd = "none"
    /\ result = "none"
    /\ fulfillReqs = 0
    /\ reqLog = << >>
    /\ acsmExists = TRUE
    /\ to_pdf = FALSE
    /\ keep_encrypted = FALSE
    /\ encFile = "absent"
    /\ suffix = ".epub"
    /\ decFile = "absent"
    /\ pdfFile = "absent"
    /\ retPath = "none"
    /\ KoboIdle
    /\ answer = NoAnswer
    /\ DrmIdle
    /\ CliIdle
    /\ ConcIdle

\* A call of is_authorized().
is_authorized_call ==
    /\ op = "idle"
    /\ answer' = [call |-> "is_authorized",
                  value |-> IF is_authorized THEN "True" ELSE "False",
                  raises |-> "none"]
    /\ UNCHANGED nonStoreVars

\* A call of get_auth_type().
get_auth_type_call ==
    /\ op = "idle"
    /\ answer' = [call |-> "get_auth_type", value |-> get_auth_type,
                  raises |-> "none"]
    /\ UNCHANGED nonStoreVars

\* A call of get_device_key().
get_device_key_call ==
    /\ op = "idle"
    /\ answer' = [call |-> "get_device_key", value |-> DeviceKey.bytes,
                  raises |-> DeviceKey.raises]
    /\ UNCHANGED nonStoreVars

\* A call of reset().
reset_call ==
    /\ reset
    /\ answer' = [call |-> "reset", value |-> "none", raises |-> "none"]
    /\ UNCHANGED <<koboVars, drmVars, cliVars, concVars>>

NextStore ==
    \/ is_authorized_call
    \/ get_auth_type_call
    \/ get_device_key_call
    \/ reset_call

SpecStore == InitStore /\ [][NextStore]_vars

(***************************************************************************)
(* DRMRemover.remove_drm (core/drm/remover.py)                             *)
(*                                                                         *)
(* ineptepub.decryptBook and ineptpdf.decryptBook are not part of the      *)
(* sources; they are modelled from the specification (section 4.5).        *)
(***************************************************************************)
\* How decryptBook can end on a file: the code it returns ("raise": it
\* raises), and what it has written at the output path by then.  A container
\* without protection is reported as 1 and nothing is written; a wrong key is
\* found when the content key is unwrapped, before the output is opened; a
\* malformed member or an unknown cipher is found while the new archive is
\* being written.  What ineptpdf does with an unprotected PDF is not
\* stated.
decryptBook(sfx, userkey, E) ==
    LET nothing(c) == [code |-> c, writes |-> FALSE, out |-> Absent]
        wrote(c, x) == [code |-> c, writes |-> TRUE, out |-> x]
    IN  IF E.kind # "container"
        THEN {nothing("2"), nothing("raise")}
        ELSE IF ~E.drm
        THEN IF sfx = ".epub"
             THEN {nothing("1")}
             ELSE {nothing("1"), nothing("2"), nothing("raise")}
        ELSE IF userkey # E.wrapped
        THEN {nothing("2"), nothing("raise")}
        ELSE IF ~E.intact
        THEN {nothing("2"), nothing("raise"),
              wrote("2", Partial), wrote("raise", Partial)}
        ELSE {wrote("0", Plain(E.pub))}

\* shutil.copy(input_file, output_file).
copy_nothing(f, src, dst) == f

copy(f, src, dst) == [f EXCEPT ![dst] = f[src]]

\* _decrypt_epub with "elif result != 0" written as "if result != 0".
decrypt_result_unless_zero(o, f, src, dst) ==
    IF o.code = "raise"
    THEN [raises |-> "DRMRemovalError", fs |-> f]
    ELSE IF o.code # "0"
    THEN [raises |-> "DRMRemovalError", fs |-> f]
    ELSE [raises |-> "none", fs |-> f]

\* _decrypt_epub and _decrypt_pdf, which differ in the module only: f is
\* the file system once decryptBook has ended with o.
decrypt_result(o, f, src, dst) ==
    IF o.code = "raise"
    THEN [raises |-> "DRMRemovalError", fs |-> f]
    ELSE IF o.code = "1"
    THEN [raises |-> "none", fs |-> copy(f, src, dst)]
    ELSE IF o.code # "0"
    THEN [raises |-> "DRMRemovalError", fs |-> f]
    ELSE [raises |-> "none", fs |-> f]

\* DRMRemover.remove_drm(input_file, output_file, device_key), the two paths
\* distinct as they are at its call site (workflow.py 56-61).
remove_drm_call(src, dst, key) ==
    LET sfx == Lower(Suffix(src))
        ended(code, raises, f) ==
            /\ fs' = f
            /\ drm' = [n |-> drm.n + 1, ran |-> TRUE, src |-> src, dst |-> dst, key |-> key,
                       code |-> code, raises |-> raises,
                       srcWas |-> fs[src], dstWas |-> fs[dst],
                       prev |-> [dst |-> drm.dst, key |-> drm.key,
                                 code |-> drm.code]]
    IN  /\ drm.n < MaxCalls
        /\ src # dst
        /\ IF fs[src].kind = "absent"
           THEN ended("none", "DRMRemovalError", fs)
           ELSE IF sfx \notin {".epub", ".pdf"}
           THEN ended("none", "DRMRemovalError", fs)
           ELSE \E o \in decryptBook(sfx, key, fs[src]) :
                   LET f == IF o.writes THEN [fs EXCEPT ![dst] = o.out] ELSE fs
                       r == decrypt_result(o, f, src, dst)
                   IN  ended(o.code, r.raises, r.fs)
        /\ UNCHANGED nonDrmVars

\* A call with any arguments.
remove_drm_any ==
    \E src \in Paths, dst \in Paths, key \in UserKeys : remove_drm_call(src, dst, key)

\* One file, of any content, under one of the paths; the other paths free or
\* one of them holding the output of an earlier run.
InitDrm ==
    /\ AuthIdle
    /\ KoboIdle
    /\ answer = NoAnswer
    /\ \E p \in Paths, q \in Paths, c \in Contents, old \in {Absent, Plain("manual")} :
          fs = [x \in Paths |-> IF x = p THEN c ELSE IF x = q THEN old ELSE Absent]
    /\ drm = NoCall
    /\ CliIdle
    /\ ConcIdle

NextDrm == remove_drm_any

SpecDrm == InitDrm /\ [][NextDrm]_vars

(***************************************************************************)
(* KoboLibrary and the kobo commands (core/kobo/library.py, cli.py)        *)
(***************************************************************************)
MaxDbLen == 24    \* bytes of Kobo.sqlite

HeaderLen == 18               \* f.read(18): the bytes before the version bytes
VersionLen == 2               \* f.read(2): the write and read version bytes
LegacyVersion == <<1, 1>>     \* b"\x01\x01": rollback journal, not WAL

\* f.read(n) with the file position at pos.
read(f, pos, n) == SubSeq(f, pos + 1, Min(pos + n, Len(f)))

\* The copy without the f.read(2) that skips the original's version bytes.
snapshot_bytes_no_skip(db) ==
    LET p1 == Min(HeaderLen, Len(db))
    IN  read(db, 0, HeaderLen) \o LegacyVersion \o read(db, p1, Len(db))

\* What KoboLibrary.__init__ writes to the temporary file.
snapshot_bytes(db) ==
    LET p1 == Min(HeaderLen, Len(db))
        p2 == Min(p1 + VersionLen, Len(db))
    IN  read(db, 0, HeaderLen) \o LegacyVersion \o read(db, p2, Len(db))

\* Files of every length up to MaxDbLen whose version bytes say WAL (2) or
\* rollback journal (1), the other bytes following one of two patterns.
DbBytes ==
    { [i \in 1..n |-> IF i - 1 \in HeaderLen..(HeaderLen + VersionLen - 1)
                      THEN v ELSE (fill + i) % 256] :
        n \in 0..MaxDbLen, v \in {1, 2}, fill \in {0, 254} }

\* Kobo.sqlite: missing, or a file whose queries return rows, return none,
\* or fail (the file is not a database, or lacks the tables).
KoboDbs ==
    {[exists |-> FALSE, bytes |-> << >>, rows |-> "none"]}
        \cup [exists : {TRUE}, bytes : DbBytes, rows : {"some", "none", "unreadable"}]

BookLoaderErrors == {"AuthorizationError", "ACSMFulfillmentError", "DRMRemovalError",
                     "CalibreNotFoundError", "WorkflowError",
                     "KoboLibraryNotFoundError", "KoboDecryptionError"}

\* KoboLibrary.close: the connection is closed and the snapshot unlinked.
close == snap' = [state |-> "deleted", bytes |-> << >>]

\* KoboLibrary.__init__ as the command name calls it.
KoboLibrary(name) ==
    IF ~kobodb.exists
    THEN /\ cmd' = Ended(name, "KoboLibraryNotFoundError", 1)
         /\ UNCHANGED snap
    ELSE /\ snap' = [state |-> "exists", bytes |-> snapshot_bytes(kobodb.bytes)]
         /\ cmd' = [NoCmd EXCEPT !.name = name, !.pc = "books", !.opened = TRUE]

\* 'kobo list' up to the library being open.
kobo_list ==
    /\ cmd.pc = "done"
    /\ KoboLibrary("kobo list")
    /\ UNCHANGED <<kobodb, conflict>>

\* 'kobo list' from lib.books on.
kobo_list_books ==
    /\ cmd.name = "kobo list"
    /\ cmd.pc = "books"
    /\ IF kobodb.rows = "unreadable"
       THEN /\ cmd' = [cmd EXCEPT !.pc = "done", !.raised = "DatabaseError", !.exit = 1]
            /\ UNCHANGED snap
       ELSE /\ cmd' = [cmd EXCEPT !.pc = "done", !.raised = "none", !.exit = 0]
            /\ close
    /\ UNCHANGED <<kobodb, conflict>>

\* 'kobo dedrm': the options are checked, and the import of safe_filename,
\* a name core/kobo/decryptor.py does not define, ends the command.
kobo_dedrm ==
    \E overwrite \in BOOLEAN, skip_existing \in BOOLEAN :
        /\ cmd.pc = "done"
        /\ cmd' = [Ended("kobo dedrm",
                         IF overwrite /\ skip_existing THEN "usage" ELSE "ImportError", 1)
                      EXCEPT !.overwrite = overwrite, !.skip_existing = skip_existing]
        /\ UNCHANGED <<kobodb, snap, conflict>>

\* kobo dedrm's strategy from its two options.
conflict_strategy(overwrite, skip_existing) ==
    IF overwrite THEN "overwrite_all"
    ELSE IF skip_existing THEN "skip_all"
    ELSE "none"

Choices == {"overwrite", "skip", "overwrite_all", "skip_all", "cancel"}

\* _resolve_file_conflict; choice is what the user answers when asked (in
\* single file mode, "overwrite" stands for yes and anything else for no).
resolve_file_conflict(exists, batch_mode, remembered_choice, choice) ==
    IF remembered_choice \in {"overwrite_all", "skip_all"}
    THEN [action |-> remembered_choice, prompted |-> FALSE, raises |-> "none"]
    ELSE IF ~exists
    THEN [action |-> "overwrite", prompted |-> FALSE, raises |-> "none"]
    ELSE IF batch_mode
    THEN IF choice = "cancel"
         THEN [action |-> "none", prompted |-> TRUE, raises |-> "Abort"]
         ELSE [action |-> choice, prompted |-> TRUE, raises |-> "none"]
    ELSE [action |-> IF choice = "overwrite" THEN "overwrite" ELSE "skip",
          prompted |-> TRUE, raises |-> "none"]

\* The conflict resolution of the first book of kobo dedrm's loop.
resolve_first_book ==
    \E overwrite \in BOOLEAN, skip_existing \in BOOLEAN, exists \in BOOLEAN,
       batch_mode \in BOOLEAN, choice \in Choices :
        /\ cmd.pc = "done"
        /\ ~(overwrite /\ skip_existing)
        /\ LET r == resolve_file_conflict(exists, batch_mode,
                        conflict_strategy(overwrite, skip_existing), choice)
           IN  conflict' = [called |-> TRUE, overwrite |-> overwrite,
                            skip_existing |-> skip_existing, exists |-> exists,
                            batch_mode |-> batch_mode, action |-> r.action,
                            prompted |-> r.prompted, raises |-> r.raises]
        /\ UNCHANGED <<cmd, kobodb, snap>>

\* Any Kobo.sqlite, or none.
InitKoboCli ==
    /\ AuthIdle
    /\ KoboIdle
    /\ answer = NoAnswer
    /\ DrmIdle
    /\ ConcIdle
    /\ cmd = NoCmd
    /\ kobodb \in KoboDbs
    /\ snap = NoSnap
    /\ conflict = NoConflict

NextKoboCli ==
    \/ (kobo_list /\ UNCHANGED nonCliVars)
    \/ (kobo_list_books /\ UNCHANGED nonCliVars)
    \/ (kobo_dedrm /\ UNCHANGED nonCliVars)
    \/ (resolve_first_book /\ UNCHANGED nonCliVars)

SpecKoboCli == InitKoboCli /\ [][NextKoboCli]_vars

(***************************************************************************)
(* Two processes on one authorization directory (core/adobe/account.py)    *)
(***************************************************************************)
MaxRuns == 2      \* authorizations begun by the two processes together

\* The file a registration step writes (spec 4.3).
StepWrites(step) ==
    CASE step = "createDeviceKeyFile" -> {"devicesalt"}
      [] step = "createDeviceFile" -> {"device.xml"}
      [] step \in {"signIn", "activateDevice"} -> {"activation.xml"}
      [] OTHER -> {}

\* The step the action being taken has completed, if any.
StepDone ==
    /\ Len(steps') = Len(steps) + 1
    /\ steps'[Len(steps')].outcome = "ok"

\* An action of the running process, with the record of who wrote what.
ByCurrent(action) ==
    /\ action
    /\ writer' = [f \in AuthFiles |->
                    IF f \notin files' THEN 0
                    ELSE IF StepDone /\ f \in StepWrites(pc) THEN cur
                    ELSE writer[f]]
    /\ IF op = "idle" /\ op' # "idle"
       THEN runs < MaxRuns /\ runs' = runs + 1
       ELSE runs' = runs
    /\ UNCHANGED <<cur, susp>>
    /\ UNCHANGED <<koboVars, storeVars, drmVars, cliVars>>

\* The scheduler takes the processor from one process and gives it to the
\* other: nothing in account.py keeps this from happening at any point.
switch ==
    /\ cur' = 3 - cur
    /\ susp' = [op |-> op, pc |-> pc, method |-> method, steps |-> steps,
                startFiles |-> startFiles, authEnd |-> authEnd, result |-> result]
    /\ op' = susp.op
    /\ pc' = susp.pc
    /\ method' = susp.method
    /\ steps' = susp.steps
    /\ startFiles' = susp.startFiles
    /\ authEnd' = susp.authEnd
    /\ result' = susp.result
    /\ UNCHANGED <<files, salt, device, activation, doc, nGen, fulfillReqs, reqLog,
                   acsmExists, writer, runs>>
    /\ UNCHANGED workVars
    /\ UNCHANGED <<koboVars, storeVars, drmVars, cliVars>>

InitConc == InitAuth

NextConc ==
    \/ ByCurrent(authorize_anonymous)
    \/ ByCurrent(authorize_adobe_id)
    \/ ByCurrent(createDeviceKeyFile)
    \/ ByCurrent(createDeviceFile)
    \/ ByCurrent(createUser)
    \/ ByCurrent(signIn)
    \/ ByCurrent(activateDevice)
    \/ ByCurrent(reset)
    \/ switch

SpecConc == InitConc /\ [][NextConc]_vars

(***************************************************************************)
(* Claims about the authorization store (checked under SpecAuth)           *)
(***************************************************************************)
AttemptEnded == authEnd \in {"returned", "AuthorizationError"}
AttemptFailed == \E k \in 1..Len(steps) : steps[k].outcome # "ok"

\* The standard activation is complete (credentials appended by step 5), or
\* the store holds an ADE activation.
FullyActivated ==
    \/ "activation.dat" \in files
    \/ /\ {"activation.xml", "device.xml", "devicesalt"} \subseteq files
       /\ activation = "activated"

\* C1: the five registration steps are invoked in order, step k+1 only after
\* step k reported success, and a failure reported by any step makes the
\* call raise AuthorizationError.
C1_StepsSequential ==
    /\ Len(steps) <= 5
    /\ \A k \in 1..Len(steps) : steps[k].step = StepOrder[k]
    /\ \A k \in 2..Len(steps) : steps[k - 1].outcome = "ok"
    /\ (AttemptEnded /\ AttemptFailed) => authEnd = "AuthorizationError"

\* C2: an attempt that starts from an empty directory and fails at any step
\* raises AuthorizationError and leaves no activation.xml and is_authorized()
\* false; is_authorized() is true only once all five steps have completed.
C2_FailedAttemptUnauthorized ==
    /\ (AttemptEnded /\ AttemptFailed /\ startFiles = {})
          => /\ authEnd = "AuthorizationError"
             /\ "activation.xml" \notin files
             /\ ~is_authorized
    /\ (authEnd # "running" /\ "activation.dat" \notin files /\ is_authorized)
          => /\ activation = "activated"
             /\ Len(steps) = 5
             /\ \A k \in 1..5 : steps[k].outcome = "ok"

\* C3: the device identity (devicesalt, device.xml) is generated only when
\* none exists: it is never regenerated or overwritten without a reset().
C3_IdentityNeverRegenerated ==
    [][/\ (salt' # salt /\ salt' # 0) => (salt = 0 /\ "devicesalt" \notin files)
       /\ (device' # device /\ device' # 0) => (device = 0 /\ "device.xml" \notin files)]_vars

\* C4: the fulfillment request is issued only in a state where the five-step
\* activation has completed.
C4_FulfillOnlyWhenActivated ==
    [][fulfillReqs' # fulfillReqs => FullyActivated]_vars

(***************************************************************************)
(* Claims about the Kobo trial decryption (checked under SpecKobo)         *)
(***************************************************************************)
HasGoodKey == \E i \in 1..Len(userkeys) : userkeys[i] = GoodKey
Finished == kpc = "done"

\* C5: for a DRM-protected book and a candidate list that contains the
\* correct key, the archive decrypt_book returns was produced with the
\* correct key: no wrong key before it is accepted.
C5_ReturnsWithCorrectKey ==
    (Finished /\ book.has_drm /\ HasGoodKey /\ kresult.kind = "returned")
        => outFile.key = GoodKey

\* C6: a candidate key is rejected whenever the layer-2 plaintext of an
\* encrypted member does not end in valid PKCS#7 padding: a member is only
\* written from a plaintext with valid padding.
C6_BadPaddingRejects ==
    (last.encrypted /\ last.outcome = "written") => ValidPKCS7(last.data)

\* The call ended with every candidate key rejected (none, when the list is
\* empty).
AllRejected == Finished /\ book.has_drm /\ rejected = Len(userkeys)

\* C7 (as claimed): with an empty candidate list or every candidate rejected,
\* decrypt_book raises KoboDecryptionError naming the title and no file is
\* left at the output path.
C7_NoKeyRaisesNoFile ==
    AllRejected
        => /\ kresult = [kind |-> "KoboDecryptionError", title |-> book.title]
           /\ outFile.state = "absent"

\* C7 (amended): with an empty candidate list or every candidate rejected,
\* decrypt_book raises KoboDecryptionError naming the title and leaves no
\* file it wrote at the output path: the path is free, except that with an
\* empty list a file that was there before the call is left untouched.
C7_NoKeyRaisesNoOutput ==
    AllRejected
        => /\ kresult = [kind |-> "KoboDecryptionError", title |-> book.title]
           /\ \/ outFile = NoFile
              \/ (userkeys = << >> /\ outFile = outFile0)

\* Every candidate of a non-empty list was rejected, and the output path held
\* a file before the call.
C7_Witness ==
    /\ AllRejected
    /\ Len(userkeys) >= 1
    /\ outFile0 = OldFile
    /\ kresult.kind = "KoboDecryptionError"

\* C8: the output path never holds an archive produced by an incomplete or
\* rejected key attempt: only the file of a fully successful pass appears.
C8_OutputOnlyAfterSuccess ==
    \/ outFile = outFile0
    \/ outFile = NoFile
    \/ outFile.state = "copy"
    \/ (outFile.state = "complete" /\ kresult.kind = "returned")

\* C9: for a DRM-protected book decrypt_book ends by returning the output
\* path or by raising KoboDecryptionError; no other error escapes.
C9_OnlyKoboErrorEscapes ==
    (Finished /\ book.has_drm) => kresult.kind \in {"returned", "KoboDecryptionError"}

IsHtml(ext) == Lower(ext) \in {".xhtml", ".html", ".htm"}
IsJpeg(ext) == Lower(ext) \in {".jpg", ".jpeg"}
InRange(b) == b >= 32 /\ b <= 127

\* The sanity check as claimed: a JPEG passes exactly when its first three
\* bytes are FF D8 FF.
SanityClaimed(ext, contents) ==
    IF IsHtml(ext)
    THEN \A i \in 1..Min(5, Len(contents)) : InRange(contents[i])
    ELSE IF IsJpeg(ext)
         THEN Len(contents) >= 3 /\ SubSeq(contents, 1, 3) = <<255, 216, 255>>
         ELSE TRUE

\* The sanity check as amended: a JPEG shorter than three bytes passes.
SanityAmended(ext, contents) ==
    IF IsHtml(ext)
    THEN \A i \in 1..Min(5, Len(contents)) : InRange(contents[i])
    ELSE IF IsJpeg(ext)
         THEN Len(contents) < 3 \/ SubSeq(contents, 1, 3) = <<255, 216, 255>>
         ELSE TRUE

\* A step that applies the sanity check to a member's plaintext writes the
\* member when accepts(name, plaintext) holds and rejects the key otherwise.
CheckDecides(accepts(_, _)) ==
    (kpc = "entry" /\ entryIdx <= Len(book.members) /\ last'.checked)
        => IF accepts(last'.ext, last'.contents)
           THEN /\ outFile' = [outFile EXCEPT
                      !.members = Append(@, [stem |-> last'.stem, ext |-> last'.ext,
                                             contents |-> last'.contents,
                                             attempt |-> keyIdx])]
                /\ keyIdx' = keyIdx
                /\ rejected' = rejected
           ELSE /\ outFile' = NoFile
                /\ keyIdx' = keyIdx + 1
                /\ rejected' = rejected + 1

\* C10 (as claimed): the check accepts exactly when the first 5 bytes of an
\* HTML member are in 0x20..0x7F, the first 3 bytes of a JPEG member are
\* FF D8 FF, and always for other names; a failed check rejects the key.
C10_SanityAsClaimed == [][CheckDecides(SanityClaimed)]_vars

\* C10 (amended): as claimed, over the bytes there are: an HTML member is
\* tested on its first min(5, length) bytes, and a JPEG member shorter than
\* 3 bytes is accepted whatever it holds.
C10_SanityAmended == [][CheckDecides(SanityAmended)]_vars

\* A JPEG plaintext of two bytes that are not FF D8 was accepted and written.
C10_Witness ==
    /\ last.checked
    /\ IsJpeg(last.ext)
    /\ last.contents = <<1, 2>>
    /\ last.outcome = "written"

(***************************************************************************)
(* Claims about the key store (checked under SpecStore and SpecAuth)       *)
(***************************************************************************)
StandardFiles == {"activation.xml", "device.xml", "devicesalt"}

\* C11: for every combination of presence and absence of activation.xml,
\* device.xml, devicesalt and activation.dat, is_authorized() is true exactly
\* when the first three are all there or activation.dat is there.
C11_AuthorizedTruthTable ==
    answer.call = "is_authorized" =>
        (answer.value = "True" <=>
            (StandardFiles \subseteq files \/ "activation.dat" \in files))

\* C11: is_authorized() was asked of a directory holding activation.dat and
\* only a part of the standard files.
C11_Witness ==
    /\ answer.call = "is_authorized"
    /\ answer.value = "True"
    /\ files = {"activation.dat", "devicesalt"}

\* C12: from any state of the directory, reset() leaves none of the four
\* files (so is_authorized() is false), does not fail when a file is already
\* missing, and a second reset() changes nothing.
C12_ResetClearsAndIsIdempotent ==
    [][answer'.call = "reset" =>
          /\ files' \cap AuthFiles = {}
          /\ ~is_authorized'
          /\ result' = "ok"
          /\ answer'.raises = "none"
          /\ (answer.call = "reset" => authVars' = authVars)]_vars

\* C12: a reset() has run and left an empty directory.
C12_Witness ==
    /\ answer.call = "reset"
    /\ files = {}
    /\ result = "ok"

\* C13: for an authorized store get_auth_type() returns the method of
\* <credentials> when that element is there and the method of <username>
\* only when <credentials> is absent; it returns "none" when the store is
\* not authorized and "unknown" when the activation cannot be parsed.
C13_AuthTypeFromCredentials ==
    answer.call = "get_auth_type" =>
        /\ ~is_authorized => answer.value = "none"
        /\ is_authorized /\ ("activation.xml" \notin files \/ ~doc.parses)
              => answer.value = "unknown"
        /\ is_authorized /\ "activation.xml" \in files /\ doc.parses
              => /\ doc.credentials \in Methods => answer.value = doc.credentials
                 /\ doc.credentials = "absent" /\ doc.username \in Methods
                       => answer.value = doc.username

\* C14: wherever is_authorized() is true the private key can be obtained, so
\* process_acsm, having fulfilled and downloaded, goes on to remove the DRM.
C14_KeyObtainableWhenAuthorized ==
    [][pc = "get_device_key" /\ is_authorized => pc' = "remove_drm"]_vars

\* C15: get_device_key() returns the decoded key when activation.xml is
\* there, parses, and holds the Base64 of the key; when the file is missing
\* or unparsable, the element absent or empty, or the text not Base64, it
\* raises AuthorizationError and returns nothing.
C15_DeviceKeyOrAuthorizationError ==
    answer.call = "get_device_key" =>
        IF "activation.xml" \in files /\ doc.parses /\ doc.key = "valid"
        THEN answer.raises = "none" /\ answer.value = "key"
        ELSE doc.key # "blank" =>
                (answer.raises = "AuthorizationError" /\ answer.value = "none")

(***************************************************************************)
(* Claims about DRMRemover (checked under SpecDrm)                         *)
(***************************************************************************)
Supported(path) == Lower(Suffix(path)) \in {".epub", ".pdf"}

\* C16: remove_drm maps the decryptor's result: on 1 the output is a copy of
\* the input and nothing is raised; on 0 nothing is raised and nothing is
\* copied; on any other outcome, on an unsupported suffix and on a missing
\* input it raises DRMRemovalError; nothing else is raised.
C16_ResultMapping ==
    drm.ran =>
        /\ drm.raises \in {"none", "DRMRemovalError"}
        /\ drm.code = "1" => drm.raises = "none" /\ fs[drm.dst] = drm.srcWas
        /\ drm.code = "0" => drm.raises = "none" /\ fs[drm.dst] # drm.srcWas
        /\ drm.code \in {"2", "raise"} => drm.raises = "DRMRemovalError"
        /\ drm.srcWas = Absent \/ ~Supported(drm.src)
              => drm.raises = "DRMRemovalError" /\ drm.code = "none"

\* C16: decryptBook reported 1 and the output path, which held something
\* else, now holds the input's bytes.
C16_Witness ==
    /\ drm.ran
    /\ drm.code = "1"
    /\ drm.raises = "none"
    /\ drm.dstWas # drm.srcWas
    /\ fs[drm.dst] = drm.srcWas

\* The call in hand reads the EPUB that the call before it, successful under
\* the same key, wrote.
RunOnOwnOutput ==
    /\ drm.ran
    /\ drm.prev.code = "0"
    /\ drm.src = drm.prev.dst
    /\ drm.key = drm.prev.key
    /\ Lower(Suffix(drm.src)) = ".epub"

C18_NoOutputOnFailure ==
    drm.ran /\ drm.raises = "DRMRemovalError" =>
        fs[drm.dst] = Absent \/ fs[drm.dst] = drm.dstWas

(***************************************************************************)
(* Claims about ACSMFulfiller.fulfill (checked under SpecAuth)             *)
(***************************************************************************)
\* C19: when fulfill fails once the download has started it raises
\* ACSMFulfillmentError and leaves no partly downloaded file; when it
\* succeeds the downloaded container is in place.
C19_NoPartialDownload ==
    /\ result = "ACSMFulfillmentError" => encFile # "partial"
    /\ result = "ok" /\ retPath = "encrypted" => encFile = "present"

\* C20: a fulfillment request that times out is issued again, three more
\* times at most, before ACSMFulfillmentError is raised; any other failure
\* is raised at once.
C20_TimeoutRetried ==
    result = "ACSMFulfillmentError" /\ reqLog # << >> =>
        /\ \A i \in 1..(Len(reqLog) - 1) : reqLog[i] = "timeout"
        /\ reqLog[Len(reqLog)] = "timeout" => Len(reqLog) = 1 + 3

(***************************************************************************)
(* Claims about BookLoader.process_acsm (checked under SpecAuth)           *)
(***************************************************************************)
Decrypted == {"decrypted", "copy"}

\* C29: process_acsm deletes the encrypted download only once the DRM
\* removal has succeeded and only when keep_encrypted is false; when the
\* fulfillment, the key lookup or the DRM removal fails the download is still
\* there; with keep_encrypted neither the download nor the decrypted EPUB is
\* deleted.
C29_EncryptedKeptUntilDecrypted ==
    [][op = "process_acsm" =>
          /\ encFile = "present" /\ encFile' # "present"
                => pc = "cleanup" /\ decFile \in Decrypted /\ ~keep_encrypted
          /\ decFile \in Decrypted /\ decFile' # decFile
                => pc = "convert" /\ ~keep_encrypted
          /\ op' = "idle" /\ result' # "ok" /\ pc \in {"get_device_key", "remove_drm"}
                => encFile' = "present"]_vars

\* C29: the DRM removal failed with the download in place.
C29_Witness ==
    /\ op = "idle"
    /\ result = "DRMRemovalError"
    /\ encFile = "present"
    /\ ~keep_encrypted

\* process_acsm has returned a path.
Returned == op = "idle" /\ result = "ok" /\ retPath \in {"pdf", "decrypted"}

\* C30: the path process_acsm returns names a file that is there: the PDF
\* exactly when to_pdf was asked for, the decrypted file is an EPUB and the
\* conversion succeeded, the decrypted file otherwise; a failed conversion
\* does not delete the decrypted EPUB.
C30_ReturnedPathExists ==
    Returned =>
        /\ retPath = "pdf" <=> (to_pdf /\ suffix = ".epub" /\ pdfFile = "present")
        /\ retPath = "pdf" => pdfFile = "present"
        /\ retPath = "decrypted" => decFile \in Decrypted

\* C30: the conversion was asked for and failed, and the EPUB is returned.
C30_Witness ==
    /\ Returned
    /\ to_pdf
    /\ ~keep_encrypted
    /\ suffix = ".epub"
    /\ pdfFile = "absent"
    /\ retPath = "decrypted"
    /\ decFile \in Decrypted

(***************************************************************************)
(* Claims about the archive decrypt_book returns (checked under SpecKobo)  *)
(***************************************************************************)
\* Every encrypted member of the book passes under this key, whatever AES
\* gives.
SurelyPasses(userkey) ==
    \A i \in 1..Len(book.members) :
        LET m == book.members[i]
        IN  m.encrypted =>
               /\ ~AESValueError(m)
               /\ \A d \in Layer2(m, userkey) :
                      Len(d) > 0 /\ check_decrypted_content(m.ext, unpad(d))

DrmReturned == kresult.kind = "returned" /\ book.has_drm

\* C27: decrypt_book tries the candidate keys in list order and returns at
\* the first under which every encrypted member passes, trying none after
\* it; the archive it returns has the members of the input, in order, the
\* encrypted ones as their plaintext under that key and the others as stored.
C27_FirstPassingKeyInOrder ==
    DrmReturned =>
        /\ kpc = "done"
        /\ keyIdx \in 1..Len(userkeys)
        /\ rejected = keyIdx - 1
        /\ outFile.key = userkeys[keyIdx]
        /\ \A j \in 1..(keyIdx - 1) : ~SurelyPasses(userkeys[j])
        /\ Len(outFile.members) = Len(book.members)
        /\ \A i \in 1..Len(book.members) :
              LET m == book.members[i]
                  w == outFile.members[i]
              IN  /\ w.stem = m.stem
                  /\ w.ext = m.ext
                  /\ IF m.encrypted
                     THEN /\ \E d \in Layer2(m, outFile.key) :
                                Len(d) > 0 /\ w.contents = unpad(d)
                          /\ check_decrypted_content(m.ext, w.contents)
                     ELSE w.contents = m.plain

\* C27: the call returned under the second candidate, the first rejected.
C27_Witness ==
    /\ DrmReturned
    /\ keyIdx = 2
    /\ rejected = 1
    /\ userkeys[2] = GoodKey
    /\ Len(book.members) = 2
    /\ ~book.members[1].encrypted

\* C28: when decrypt_book returns after rejected candidates, the archive
\* holds the members written under the accepted candidate only, one for each
\* member of the input.
C28_NoMemberOfRejectedAttempt ==
    DrmReturned =>
        /\ Len(outFile.members) = Len(book.members)
        /\ \A i \in 1..Len(outFile.members) :
              /\ outFile.members[i].attempt = keyIdx
              /\ outFile.members[i].stem = book.members[i].stem

\* C28: the call returned after a candidate was rejected with a member
\* already written.
C28_Witness ==
    /\ DrmReturned
    /\ rejected >= 1
    /\ Len(book.members) = 2
    /\ ~book.members[1].encrypted
    /\ Len(outFile.members) = 2

(***************************************************************************)
(* Claims about the commands                                               *)
(***************************************************************************)
\* C24: whenever 'auth reset' deletes any authorization file, a backup
\* archive has been created earlier in the same run.
C24_BackupBeforeDelete ==
    cmd.name = "auth reset" /\ cmd.deleted # {} => cmd.backup

\* C21: once a command has opened a KoboLibrary, its snapshot is closed and
\* deleted by the time the command ends, however it ends.
C21_SnapshotDeletedAtEnd ==
    cmd.pc = "done" /\ cmd.opened => snap.state = "deleted"

\* The snapshot has the original's length and bytes, except 0x01 at the
\* offsets 18 and 19.
CopyExceptVersion(snapshot, original) ==
    /\ Len(snapshot) = Len(original)
    /\ \A i \in 1..Len(snapshot) :
          snapshot[i] = IF i - 1 \in {18, 19} THEN 1 ELSE original[i]

\* C22 as stated: opening a KoboLibrary leaves Kobo.sqlite as it was, and the
\* snapshot is a copy of it except for the two version bytes.
C22_SnapshotIsCopy ==
    [][/\ kobodb' = kobodb
       /\ snap'.state = "exists" => CopyExceptVersion(snap'.bytes, kobodb.bytes)]_vars

\* C22, amended: the same for a Kobo.sqlite of at least 20 bytes.
C22_SnapshotIsCopyOfHeaderedFile ==
    [][/\ kobodb' = kobodb
       /\ snap'.state = "exists" /\ Len(kobodb.bytes) >= 20
             => CopyExceptVersion(snap'.bytes, kobodb.bytes)]_vars

\* C22: a library was opened on a file in WAL mode with bytes after the
\* version bytes.
C22_Witness ==
    /\ snap.state = "exists"
    /\ Len(kobodb.bytes) > 20
    /\ kobodb.bytes[19] = 2
    /\ snap.bytes[19] = 1

\* C23: with --skip-existing a book is skipped exactly when its output
\* exists; with --overwrite no book is skipped and nothing is asked.
C23_SkipExactlyWhenOutputExists ==
    conflict.called =>
        /\ conflict.skip_existing =>
              (conflict.action \in {"skip", "skip_all"} <=> conflict.exists)
        /\ conflict.overwrite =>
              /\ conflict.action \notin {"skip", "skip_all"}
              /\ ~conflict.prompted

\* C26: a command exits with 0 on success, with 1 on a BookLoaderError, and
\* with 2 on any other exception.
C26_ExitCodes ==
    cmd.name # "none" /\ cmd.pc = "done" /\ cmd.raised # "usage" =>
        cmd.exit = IF cmd.raised = "none" THEN 0
                   ELSE IF cmd.raised \in BookLoaderErrors THEN 1
                   ELSE 2

(***************************************************************************)
(* Claims about concurrent runs (checked under SpecConc)                   *)
(***************************************************************************)
\* C25: writes to the authorization directory are mutually exclusive across
\* processes: a process writes or deletes authorization files only while
\* the other process is outside authorize_* (and reset).
C25_WritesMutuallyExclusive ==
    [][files' # files \/ writer' # writer => susp.op = "idle"]_vars

====
